---- MODULE Spec2Model ----
(***************************************************************************)
(* chronsync: the scheduling and execution engine (src/src/scheduler.rs).  *)
(*                                                                         *)
(* TaskScheduler owns job_handles, one JobHandle (a shared cell holding    *)
(* an optional tokio JoinHandle) per spawned job loop.  reload_tasks runs  *)
(* on the daemon's main task; every job loop is a task spawned on the      *)
(* multi-threaded tokio runtime (#[tokio::main]), so a loop is polled in   *)
(* parallel with reload_tasks.  A poll runs the loop's code from one       *)
(* suspension point (.await that is pending) to the next.  JoinHandle::    *)
(* abort on a task that is suspended drops it before it runs again; on a   *)
(* task that is being polled it takes effect when that poll suspends.      *)
(* Dropping the task drops its tokio::process::Child, which leaves the     *)
(* child process running (kill_on_drop is never set).                      *)
(*                                                                         *)
(* handle_run_command (src/src/commands.rs) is the daemon: it validates    *)
(* and loads the configuration file, calls reload_tasks, and then serves   *)
(* reload signals and Ctrl+C in its event loop.  handle_check_command and  *)
(* handle_exec_command are one-shot subcommands, each a process of its own *)
(* (CliSpec): they read the configuration file (src/src/config.rs), and    *)
(* exec calls execute_command directly for one task.                       *)
(*                                                                         *)
(* Time is a discrete clock of schedule ticks.  The code of one poll takes *)
(* no ticks; only suspensions and the gaps between polls do.               *)
(***************************************************************************)
EXTENDS Integers, Sequences, FiniteSets, TLC

(* ------------------------------ bounds -------------------------------- *)
\* MaxTime: the last tick of the clock.  MaxReloads: the events (initial
\* load, reload signals, Ctrl+C) the daemon handles.  MaxTasks: the tasks of
\* one configuration.  MaxProcs: the child processes alive at once.
\* MaxLoops: the job loops spawned in all.  MaxKinds: the entries of the task
\* table that the configurations of Spec draw from.
MaxTime == 2
MaxReloads == 2
MaxTasks == 2
MaxProcs == 2
MaxLoops == 3
MaxKinds == 2

(* --------------------------- schedules, tasks -------------------------- *)
\* No next occurrence: Option::None of schedule.upcoming(..).next().
NoNext == -1
\* Option::None of task.timeout.
NoTimeout == -1

\* A cron schedule as the data that decides its occurrences: an occurrence
\* every `period` ticks, up to and including tick `last` (a year field makes
\* a cron expression finite); last = NoNext means it never ends. EveryTick is
\* "* * * * * *"; OneShot has its only occurrence at tick 2.
EveryTick == [period |-> 1, last |-> NoNext]
OneShot == [period |-> 2, last |-> 2]

\* The task table: the Task values a configuration file can hold, each with
\* what its command does when it runs (writes: it writes to its stdout and
\* stderr).
\* Option::None of task.cwd, and of task.env (a map with no key has the effect
\* of None).  A path is the sequence of its components; an absolute path
\* starts with "/".
NoCwd == <<>>
NoEnv == [k \in {} |-> ""]

Tasks ==
  << [cron_schedule |-> EveryTick, timeout |-> 1, webhook_url |-> TRUE, writes |-> TRUE,
      cwd |-> <<"/", "srv">>, env |-> [k \in {"K"} |-> "task"]],
     [cron_schedule |-> OneShot, timeout |-> NoTimeout, webhook_url |-> FALSE, writes |-> TRUE,
      cwd |-> NoCwd, env |-> NoEnv],
     [cron_schedule |-> EveryTick, timeout |-> 0, webhook_url |-> FALSE, writes |-> TRUE,
      cwd |-> NoCwd, env |-> NoEnv],
     [cron_schedule |-> EveryTick, timeout |-> NoTimeout, webhook_url |-> TRUE, writes |-> FALSE,
      cwd |-> <<"jobs">>, env |-> [k \in {"HOME"} |-> "/tmp"]] >>

TaskIds == 1..Len(Tasks)

\* Config.tasks: every sequence of at most MaxTasks tasks (duplicates allowed)
\* drawn from the first MaxKinds tasks of the table.
Configs == UNION {[1..n -> 1..MaxKinds] : n \in 0..MaxTasks}

\* Config.tasks: the configurations of at most one task, any of the table.
SingleConfigs == UNION {[1..n -> TaskIds] : n \in 0..1}

(* ------------------------- configuration file ------------------------- *)
\* A key that an object of the file does not have.
Missing == "<missing>"

\* The fields of a cron expression that the cron crate accepts.
CronFields == {"*", "0/2", "2030"}

EverySecond == <<"*", "*", "*", "*", "*", "*">>

\* The objects of "tasks" that a configuration file can hold: the values of
\* the keys name, cron_schedule (the fields of the string) and command, and
\* the task of the table that the other keys (args, timeout, webhook_url, cwd,
\* env) make of it.
Entries ==
  << [name |-> "a", cron_schedule |-> EverySecond, command |-> "sh", task |-> 1],
     [name |-> "a", cron_schedule |-> <<"0/2", "*", "*", "*", "*", "*", "2030">>,
      command |-> "sh", task |-> 2],
     [name |-> "b", cron_schedule |-> EverySecond, command |-> "sh", task |-> 4],
     [name |-> "b", cron_schedule |-> <<"INVALID_CRON">>, command |-> "sh", task |-> 2],
     [name |-> "a", cron_schedule |-> EverySecond, command |-> Missing, task |-> 3],
     [name |-> Missing, cron_schedule |-> EverySecond, command |-> "sh", task |-> 3],
     [name |-> "b", cron_schedule |-> <<Missing>>, command |-> "sh", task |-> 2],
     [name |-> "b", cron_schedule |-> <<"*", "*", "*", "*", "*">>, command |-> "sh",
      task |-> 3] >>

\* MaxEntries: the objects of "tasks" in one file.  MaxEdits: the times the
\* file is rewritten while a subcommand runs.
MaxEntries == 2
MaxEdits == 1

\* No file at config_path.
NoFile == <<0>>

\* What config_path can hold: nothing, or a JSON document whose "tasks" are
\* at most MaxEntries objects.
Files == {NoFile} \cup UNION {[1..n -> 1..Len(Entries)] : n \in 0..MaxEntries}

\* Schedule::from_str(s) is Ok: six fields, or seven with the year, each one
\* a field the cron grammar accepts.
Schedule_from_str(s) ==
  Len(s) \in {6, 7} /\ \A i \in 1..Len(s) : s[i] \in CronFields

\* #[derive(Deserialize)] of Task on one object: Err when name, cron_schedule
\* or command is missing, or when deserialize_schedule fails.
deserialize_task(e) ==
  /\ e.name # Missing
  /\ e.command # Missing
  /\ e.cron_schedule # <<Missing>>
  /\ Schedule_from_str(e.cron_schedule)

Err == <<[name |-> "Err", task |-> 0]>>

\* The Vec<Task> of the objects es, read in order: the first object that does
\* not deserialize fails the whole document.
RECURSIVE deserialize_tasks(_)
deserialize_tasks(es) ==
  IF es = <<>> THEN <<>>
  ELSE IF ~deserialize_task(Entries[Head(es)]) THEN Err
  ELSE LET rest == deserialize_tasks(Tail(es))
       IN IF rest = Err THEN Err
          ELSE <<[name |-> Entries[Head(es)].name, task |-> Entries[Head(es)].task]>> \o rest

\* load_config(path) with the file holding f: Err (read_to_string or
\* serde_json::from_str failed) or the Config's tasks.
load_config_mut_SkipInvalid(f) ==
  IF f = NoFile THEN Err
  ELSE LET ok == SelectSeq(f, LAMBDA e : deserialize_task(Entries[e]))
       IN [i \in 1..Len(ok) |-> [name |-> Entries[ok[i]].name, task |-> Entries[ok[i]].task]]

load_config(f) ==
  IF f = NoFile THEN Err ELSE deserialize_tasks(f)

\* Tick k is an occurrence of schedule s.
IsOccurrence(s, k) ==
  k % s.period = 0 /\ (s.last = NoNext \/ k <= s.last)

\* The first occurrence of schedule s strictly after tick t (ScheduleIterator
\* of schedule.upcoming(Local), evaluated at clock value t).
upcoming_mut_AtOrAfter(s, t) ==
  LET k == IF t % s.period = 0 /\ t > 0 THEN t ELSE t + s.period - (t % s.period)
  IN IF s.last # NoNext /\ k > s.last THEN NoNext ELSE k

upcoming(s, t) ==
  LET k == t + s.period - (t % s.period)
  IN IF s.last # NoNext /\ k > s.last THEN NoNext ELSE k

(* ------------------------------- state --------------------------------- *)
VARIABLES
  now,          \* the wall clock, in ticks
  job_handles,  \* TaskScheduler.job_handles: loop ids, in registration order
  loops,        \* every job loop ever spawned, with its JobHandle cell
  procs,        \* the child processes that run or are still awaited
  rpc,          \* where reload_tasks is: "idle" (not running) or inside it
  draining,     \* the handles job_handles.drain(..) has still to yield
  pending,      \* the tasks of config.tasks not yet registered
  config,       \* the configuration of the current or last reload_tasks
  gen,          \* how many times reload_tasks has been called
  daemon,       \* where handle_run_command is
  rejected,     \* how many reload signals met a configuration that fails to load
  cli           \* the process of a one-shot subcommand (check, exec)

vars == <<now, job_handles, loops, procs, rpc, draining, pending, config, gen,
          daemon, rejected, cli>>

LoopIds == 1..Len(loops)

Suspended == {"Start", "Waiting", "Running", "Killing", "Alerting"}

\* The working directory and the environments the process can be started in.
DaemonCwd == <<"/", "home">>

Environs ==
  { [k \in {"HOME"} |-> "/root"],
    [k \in {"HOME", "K"} |-> IF k = "HOME" THEN "/root" ELSE "daemon"] }

\* args.task_name of `chronsync exec`.
TaskNames == {"a", "b", "c"}

\* No child process yet.
NoChild == [st |-> "none", kill |-> "none", env |-> NoEnv, cwd |-> NoCwd, start |-> -1]

\* The process of `chronsync check` or `chronsync exec <task_name>`:
\*   cmd, task_name   the subcommand and its argument
\*   environ          the environment it was started with
\*   file, edits      what config_path holds, and how often it was rewritten
\*   pc               where the handler is ("exited": the process is over)
\*   exit             the exit status (-1 while it runs)
\*   loaded, tasks    load_config returned Ok, and the Config's tasks
\*   found            the index in tasks of the task that find() returned (0: none)
\*   execs            how many times execute_command was called
\*   child            the child that execute_command spawned
\*   outcome, alerts, delivery, captured   as for a job loop
cli_start(cmd, name, f, environ) ==
  [cmd |-> cmd, task_name |-> name, environ |-> environ, file |-> f, edits |-> 0,
   pc |-> "check", exit |-> -1, loaded |-> FALSE, tasks |-> <<>>, found |-> 0,
   execs |-> 0, child |-> NoChild, outcome |-> "none", alerts |-> 0,
   delivery |-> "none", captured |-> FALSE]

\* The process is `chronsync run`, the daemon.
NoCli == [cli_start("run", "", NoFile, NoEnv) EXCEPT !.pc = "none"]

Init ==
  /\ now = 0
  /\ job_handles = <<>>
  /\ loops = <<>>
  /\ procs = {}
  /\ rpc = "idle"
  /\ draining = <<>>
  /\ pending = <<>>
  /\ config = <<>>
  /\ gen = 0
  /\ daemon = "check"
  /\ rejected = 0
  /\ cli = NoCli

(* ----------------------------- job loops ------------------------------- *)
\* The task spawned by register_task (tokio::spawn), with the JobHandle cell
\* it shares with the scheduler:
\*   task, gen   the Task it runs and the reload_tasks call that spawned it
\*   pc          the suspension point it is at, or how it ended
\*   polling     a worker thread is running its code right now
\*   aborted     JoinHandle::abort has been called on it
\*   cell        the JobHandle cell holds Some(JoinHandle)
\*   next        the fire instant it computed last (NoNext: none)
\*   wake        the deadline of the sleep it set up last (NoNext: none)
\*   first       what its schedule answered when first asked ("unasked" before)
\*   fire        the fire instant of its last Executor invocation (-1: none)
\*   ret         the clock when its last Executor invocation returned (-1)
\*   execs       how many times it has invoked the Executor
\*   fired       the fire instants it has invoked the Executor for
\*   busy        an Executor invocation of it has not returned
\*   proc        the spawn time of the child it awaits (-1: none)
\*   outcome     the outcome of its last Executor invocation that returned
\*   alerts      the send_alert calls of its last Executor invocation
\*   captured    output.stdout / output.stderr of its last Executor invocation
\*               that completed are not empty
\*   delivery    the result of the post of its last Executor invocation's
\*               send_alert ("none": no result yet)
\*   kills       how many times its last Executor invocation ran kill -9
\*   kill        the status of that kill ("none": no kill)
new_loop(t, g) ==
  [task |-> t, gen |-> g, pc |-> "Start", polling |-> FALSE, aborted |-> FALSE,
   cell |-> FALSE, next |-> NoNext, first |-> "unasked", fire |-> -1, ret |-> -1,
   execs |-> 0, busy |-> FALSE, proc |-> -1, outcome |-> "none", alerts |-> 0,
   captured |-> FALSE, fired |-> {}, delivery |-> "none", kills |-> 0,
   kill |-> "none", wake |-> NoNext]

schedule_of(lp) == Tasks[lp.task].cron_schedule

\* The poll returns Pending: the task is suspended, and a task that was
\* aborted while it was being polled is cancelled (dropped) now.
suspend(lp) ==
  IF lp.aborted
    THEN [lp EXCEPT !.pc = "Cancelled", !.polling = FALSE]
    ELSE [lp EXCEPT !.polling = FALSE]

\* JoinHandle::abort (reload_tasks): a suspended task is dropped before it runs
\* again; a task that is being polled, or is over, is only marked.
abort_mut_MarkOnly(lp) ==
  [lp EXCEPT !.aborted = TRUE]

abort(lp) ==
  IF lp.pc \in Suspended /\ ~lp.polling
    THEN [lp EXCEPT !.aborted = TRUE, !.pc = "Cancelled"]
    ELSE [lp EXCEPT !.aborted = TRUE]

\* chrono's Duration::to_std: Err(OutOfRangeError) for a negative duration.
OutOfRange == -1

to_std(d) == IF d < 0 THEN OutOfRange ELSE d

\* Result::unwrap_or_default on to_std's result: Duration::default(), zero,
\* for the Err.
unwrap_or_default(r) == IF r = OutOfRange THEN 0 ELSE r

\* `let delay = next_execution - now; delay.to_std().unwrap_or_default()`, with
\* now read at clock t and next_execution being n: how long sleep() lasts.
sleep_duration_mut_NoWait(t, n) == 0

sleep_duration(t, n) == unwrap_or_default(to_std(n - t))

\* One pass of `while job_running` at clock t: ask the schedule; Some(next):
\* sleep until it; None: job_running = false, the loop is over and the spawned
\* task clears its own handle cell (handle_ref_for_job.lock().take()).
run_job_loop_mut_FireOnNone(lp, t) ==
  LET n == upcoming(schedule_of(lp), t)
      a == [lp EXCEPT !.first = IF lp.first # "unasked" THEN lp.first
                               ELSE IF n = NoNext THEN "none" ELSE "some"]
  IN suspend([a EXCEPT !.pc = "Waiting", !.next = IF n = NoNext THEN t ELSE n,
                       !.wake = IF n = NoNext THEN t ELSE t + sleep_duration(t, n)])

run_job_loop_mut_ClearsEachPass(lp, t) ==
  LET n == upcoming(schedule_of(lp), t)
      a == [lp EXCEPT !.first = IF lp.first # "unasked" THEN lp.first
                               ELSE IF n = NoNext THEN "none" ELSE "some",
                      !.cell = FALSE]
  IN IF n = NoNext
       THEN [a EXCEPT !.pc = "Ended", !.next = NoNext, !.wake = NoNext, !.polling = FALSE]
       ELSE suspend([a EXCEPT !.pc = "Waiting", !.next = n, !.wake = t + sleep_duration(t, n)])

run_job_loop(lp, t) ==
  LET n == upcoming(schedule_of(lp), t)
      a == [lp EXCEPT !.first = IF lp.first # "unasked" THEN lp.first
                               ELSE IF n = NoNext THEN "none" ELSE "some"]
  IN IF n = NoNext
       THEN [a EXCEPT !.pc = "Ended", !.next = NoNext, !.wake = NoNext,
                      !.polling = FALSE, !.cell = FALSE]
       ELSE suspend([a EXCEPT !.pc = "Waiting", !.next = n, !.wake = t + sleep_duration(t, n)])

\* execute_command returns with outcome o at clock t, and the loop goes round.
execute_command_return_mut_SpawnFailEnds(lp, o, t) ==
  LET r == [lp EXCEPT !.outcome = o, !.ret = t, !.busy = FALSE, !.proc = -1]
  IN IF o = "SpawnFailed"
       THEN [r EXCEPT !.pc = "Ended", !.next = NoNext, !.wake = NoNext,
                      !.polling = FALSE, !.cell = FALSE]
       ELSE run_job_loop(r, t)

execute_command_return(lp, o, t) ==
  run_job_loop([lp EXCEPT !.outcome = o, !.ret = t, !.busy = FALSE, !.proc = -1], t)

\* execute_command has spawned child p: it awaits wait_with_output (under
\* time::timeout when the task has a timeout).
await_child_mut_NoAwait(lp, t) ==
  run_job_loop([lp EXCEPT !.proc = -1], t)

await_child(lp, t) ==
  suspend([lp EXCEPT !.pc = "Running", !.proc = t])

\* A child process: the loop whose Executor spawned it, its task, the clock
\* when it was spawned, its state ("running", or "success" / "failure": it
\* has exited with that status) and whether a kill -9 issued for it failed.
new_proc(l, tk, t) ==
  [loop |-> l, task |-> tk, start |-> t, st |-> "running", kill |-> "none"]

\* The child the loop l awaits.
child_of(ps, l, lp) == CHOOSE p \in ps : p.loop = l /\ p.start = lp.proc

\* The processes that still matter with the loops being ls: those running, and
\* those that have exited and whose execute_command has yet to see it (an
\* exited or killed process nobody awaits is gone).
reap(ps, ls) ==
  {p \in ps : \/ p.st = "running"
              \/ ls[p.loop].pc = "Running" /\ ls[p.loop].proc = p.start}

\* What dropping a cancelled task's future does to the child it awaits: the
\* Command is built without kill_on_drop, so nothing.
drop_child_mut_KillOnDrop(ps, l) ==
  {p \in ps : p.loop # l}

drop_child(ps, l) == ps

\* kill -9 <pid> ran with result ok: the process is gone, or the kill failed.
kill_child_mut_Spare(ps, p, ok) == ps

kill_child_mut_KillTask(ps, p, ok) == {q \in ps : q.task # p.task}

kill_child(ps, p, ok) ==
  IF ok THEN ps \ {p} ELSE (ps \ {p}) \cup {[p EXCEPT !.kill = "failed"]}

timeout_of(lp) == Tasks[lp.task].timeout

\* How cmd_to_run sets up the child's stdout and stderr: Command::new(command)
\* with args, current_dir and envs only, and spawn(): both are inherited from
\* the daemon ("piped" would be Stdio::piped()).
stdio == "inherit"

\* Whether Output.stdout / Output.stderr of child.wait_with_output() hold
\* anything, for a child that wrote (written) or not: wait_with_output
\* collects what arrives on the child's pipes, and an inherited stream has no
\* pipe.
wait_with_output(written) == stdio = "piped" /\ written

\* `if let Some(url) = webhook_url` in the branch of a failure exit status:
\* send_alert is called when the task has a webhook_url.
alert_on_failure_mut_Always(lp) == TRUE

alert_on_failure(lp) == Tasks[lp.task].webhook_url

\* `match kill_status` at clock t: both arms log (killed, or failed to kill)
\* and fall through to Err(TimedOut), with which execute_command returns.
kill_status_mut_RetryOnFailure(lp, t) ==
  IF lp.kill = "failed" /\ lp.kills < 2
    THEN suspend([lp EXCEPT !.kills = @ + 1])
    ELSE execute_command_return(lp, "TimedOut", t)

kill_status(lp, t) ==
  execute_command_return(lp, "TimedOut", t)

\* What client.post(..).send().await can come back with.
AlertResults == {"transport error", "non-2xx", "success"}

\* send_alert once its post has the result r, at clock t: each arm of the
\* match logs and falls through, send_alert returns (), and execute_command
\* returns after it.
send_alert_mut_RetryOnError(lp, r, t) ==
  IF r = "success"
    THEN execute_command_return([lp EXCEPT !.delivery = r], "Failed", t)
    ELSE suspend([lp EXCEPT !.delivery = r, !.alerts = @ + 1])

send_alert(lp, r, t) ==
  execute_command_return([lp EXCEPT !.delivery = r], "Failed", t)

\* time::timeout(duration, ..) has elapsed for the child spawned at `start`.
timed_out_mut_ZeroIsNone(lp, start, t) ==
  timeout_of(lp) # NoTimeout /\ timeout_of(lp) # 0 /\ t >= start + timeout_of(lp)

timed_out(lp, start, t) ==
  timeout_of(lp) # NoTimeout /\ t >= start + timeout_of(lp)

(* ---------------------------- reload_tasks ----------------------------- *)
\* What self.job_handles holds once drain(..) has run over hs: nothing.
drain_mut_Keep(hs) == hs

drain(hs) == <<>>

\* `if let Some(handle) = handle_mutex.lock().unwrap().take() { handle.abort() }`
\* on a cell that holds a JoinHandle.
take_and_abort_mut_TakeOnly(lp) == [lp EXCEPT !.cell = FALSE]

take_and_abort(lp) == [abort(lp) EXCEPT !.cell = FALSE]

\* reload_tasks(c) is entered: job_handles.drain(..) empties the vector and
\* yields the old handles one by one.
reload_tasks(c) ==
  /\ rpc = "idle"
  /\ Len(loops) + Len(c) <= MaxLoops
  /\ rpc' = "cancel"
  /\ gen' = gen + 1
  /\ config' = c
  /\ draining' = job_handles
  /\ job_handles' = drain(job_handles)
  /\ pending' = <<>>
  /\ UNCHANGED <<now, loops, procs, cli>>

\* The body of `for handle_mutex in self.job_handles.drain(..)`: lock the
\* cell, take() the JoinHandle, abort it when there was one.
cancel_handle ==
  /\ rpc = "cancel"
  /\ draining # <<>>
  /\ LET h == Head(draining)
         ls == [loops EXCEPT ![h] = take_and_abort(loops[h])]
     IN IF loops[h].cell
          THEN /\ loops' = ls
               /\ procs' = reap(IF ls[h].pc = "Cancelled" /\ loops[h].pc # "Cancelled"
                                  THEN drop_child(procs, h) ELSE procs, ls)
          ELSE UNCHANGED <<loops, procs, daemon, rejected>>
  /\ draining' = Tail(draining)
  /\ UNCHANGED <<now, job_handles, rpc, pending, config, gen, daemon, rejected, cli>>

\* Every old handle is dealt with: reload_tasks goes on to `for task in
\* config.tasks`.
begin_registering_mut_Early ==
  /\ rpc = "cancel"
  /\ rpc' = "register"
  /\ pending' = config
  /\ UNCHANGED <<now, job_handles, loops, procs, draining, config, gen, daemon, rejected, cli>>

begin_registering ==
  /\ rpc = "cancel"
  /\ draining = <<>>
  /\ rpc' = "register"
  /\ pending' = config
  /\ UNCHANGED <<now, job_handles, loops, procs, draining, config, gen, daemon, rejected, cli>>

\* register_task up to tokio::spawn: a new cell holding None is pushed to
\* job_handles and the job loop's task is spawned.
register_task_spawn ==
  /\ rpc = "register"
  /\ pending # <<>>
  /\ loops' = Append(loops, new_loop(Head(pending), gen))
  /\ job_handles' = Append(job_handles, Len(loops) + 1)
  /\ rpc' = "store"
  /\ UNCHANGED <<now, procs, draining, pending, config, gen, daemon, rejected, cli>>

\* register_task's last statement: *handle_ref.lock().unwrap() = Some(job_task).
register_task_store ==
  /\ rpc = "store"
  /\ loops' = [loops EXCEPT ![Len(loops)].cell = TRUE]
  /\ pending' = Tail(pending)
  /\ rpc' = "register"
  /\ UNCHANGED <<now, job_handles, procs, draining, config, gen, daemon, rejected, cli>>

\* reload_tasks returns; after the reload of Ctrl+C the event loop is left
\* (`break`) and handle_run_command returns.
reload_tasks_return_mut_JoinsLoops ==
  /\ rpc = "register"
  /\ pending = <<>>
  /\ \A l \in LoopIds : loops[l].gen < gen => loops[l].pc \in {"Ended", "Cancelled"} /\ ~loops[l].busy
  /\ rpc' = "idle"
  /\ daemon' = IF daemon = "stopping" THEN "exited" ELSE daemon
  /\ UNCHANGED <<now, job_handles, loops, procs, draining, pending, config, gen, rejected, cli>>

reload_tasks_return ==
  /\ rpc = "register"
  /\ pending = <<>>
  /\ rpc' = "idle"
  /\ daemon' = IF daemon = "stopping" THEN "exited" ELSE daemon
  /\ UNCHANGED <<now, job_handles, loops, procs, draining, pending, config, gen, rejected, cli>>

(* ------------------------- handle_run_command ------------------------- *)
\* daemon is "check" (before core_check_config), "load" (before the initial
\* load_config), "serving" (in the event loop, or in the reload_tasks it
\* called), "stopping" (in the reload_tasks of Ctrl+C), "failed" (it has called
\* process::exit(1)) or "exited" (it has returned, and main with it).
\* A load reads the configuration file as it is at that moment: it yields any
\* configuration, or fails.

\* core_check_config(&config_path): Err is `process::exit(1)`.
core_check_config ==
  /\ daemon = "check"
  /\ \E ok \in BOOLEAN : daemon' = IF ok THEN "load" ELSE "failed"
  /\ UNCHANGED <<now, job_handles, loops, procs, rpc, draining, pending, config, gen, rejected, cli>>

\* The initial load_config fails: "Failed to load initial config", return.
initial_load_failed_mut_Serves ==
  /\ daemon = "load"
  /\ daemon' = "serving"
  /\ UNCHANGED <<now, job_handles, loops, procs, rpc, draining, pending, config, gen, rejected, cli>>

initial_load_failed ==
  /\ daemon = "load"
  /\ daemon' = "exited"
  /\ UNCHANGED <<now, job_handles, loops, procs, rpc, draining, pending, config, gen, rejected, cli>>

\* The initial load_config yields c: scheduler.reload_tasks(c), then the
\* event loop.
initial_load(c) ==
  /\ daemon = "load"
  /\ reload_tasks(c)
  /\ daemon' = "serving"
  /\ UNCHANGED rejected

\* `Some(_) = rx_reload.recv()` with a file that loads as c:
\* scheduler.reload_tasks(c).
reload_signal(c) ==
  /\ daemon = "serving"
  /\ gen + rejected < MaxReloads
  /\ reload_tasks(c)
  /\ UNCHANGED <<daemon, rejected>>

\* `Some(_) = rx_reload.recv()` with a file that fails to load: the error is
\* logged and the event loop goes on.
reload_rejected_mut_StopsJobs ==
  /\ daemon = "serving"
  /\ gen + rejected < MaxReloads
  /\ reload_tasks(<<>>)
  /\ rejected' = rejected + 1
  /\ UNCHANGED daemon

reload_rejected ==
  /\ daemon = "serving"
  /\ rpc = "idle"
  /\ gen + rejected < MaxReloads
  /\ rejected' = rejected + 1
  /\ UNCHANGED <<now, job_handles, loops, procs, rpc, draining, pending, config, gen, daemon, cli>>

\* `_ = tokio::signal::ctrl_c()`: scheduler.reload_tasks(Config { tasks: vec![] }).
ctrl_c ==
  /\ daemon = "serving"
  /\ gen + rejected < MaxReloads
  /\ reload_tasks(<<>>)
  /\ daemon' = "stopping"
  /\ UNCHANGED rejected

(* ------------------------- polls of a job loop ------------------------- *)
\* What wakes the suspended loop: the spawn, the sleep's deadline, the child's
\* exit or the timeout, the end of kill, the end of send_alert.
ready_mut_OneAtATime(l, lp) ==
  CASE lp.pc = "Start" -> TRUE
    [] lp.pc = "Waiting" ->
         now >= lp.wake /\ \A m \in LoopIds \ {l} : loops[m].pc # "Running"
    [] lp.pc = "Running" ->
         child_of(procs, l, lp).st # "running" \/ timed_out(lp, lp.proc, now)
    [] lp.pc = "Killing" -> TRUE
    [] lp.pc = "Alerting" -> TRUE
    [] OTHER -> FALSE

ready(l, lp) ==
  CASE lp.pc = "Start" -> TRUE
    [] lp.pc = "Waiting" -> now >= lp.wake
    [] lp.pc = "Running" ->
         child_of(procs, l, lp).st # "running" \/ timed_out(lp, lp.proc, now)
    [] lp.pc = "Killing" -> TRUE
    [] lp.pc = "Alerting" -> TRUE
    [] OTHER -> FALSE

\* A worker thread takes the woken task and starts polling it.
poll(l) ==
  /\ loops[l].pc \in Suspended
  /\ ~loops[l].polling
  /\ ready(l, loops[l])
  /\ loops' = [loops EXCEPT ![l].polling = TRUE]
  /\ UNCHANGED <<now, job_handles, procs, rpc, draining, pending, config, gen, daemon, rejected, cli>>

\* The first poll: run_job_loop is entered.
first_poll(l) ==
  /\ loops[l].pc = "Start"
  /\ loops[l].polling
  /\ loops' = [loops EXCEPT ![l] = run_job_loop(loops[l], now)]
  /\ UNCHANGED <<now, job_handles, procs, rpc, draining, pending, config, gen, daemon, rejected, cli>>

\* sleep(duration) is over: execute_command is called and spawns the command.
\* Err: it logs and returns. Ok: it awaits the child.
execute_command(l) ==
  /\ loops[l].pc = "Waiting"
  /\ loops[l].polling
  /\ LET lp == [loops[l] EXCEPT !.execs = @ + 1, !.busy = TRUE, !.fire = loops[l].next,
                               !.alerts = 0, !.captured = FALSE, !.delivery = "none",
                               !.kills = 0, !.kill = "none",
                               !.fired = @ \cup {loops[l].next}]
     IN \/ /\ loops' = [loops EXCEPT ![l] = execute_command_return(lp, "SpawnFailed", now)]
           /\ procs' = procs
        \/ /\ Cardinality(procs) < MaxProcs
           /\ loops' = [loops EXCEPT ![l] = await_child(lp, now)]
           /\ procs' = reap(procs \cup {new_proc(l, lp.task, now)}, loops')
  /\ UNCHANGED <<now, job_handles, rpc, draining, pending, config, gen, daemon, rejected, cli>>

\* The child has exited with success: Ok(output), status.success().
completed_success(l) ==
  /\ loops[l].pc = "Running"
  /\ loops[l].polling
  /\ child_of(procs, l, loops[l]).st = "success"
  /\ loops' = [loops EXCEPT ![l] =
       execute_command_return(
         [loops[l] EXCEPT !.captured = wait_with_output(Tasks[loops[l].task].writes)],
         "Success", now)]
  /\ procs' = reap(procs, loops')
  /\ UNCHANGED <<now, job_handles, rpc, draining, pending, config, gen, daemon, rejected, cli>>

\* The child has exited with a failure status: with a webhook_url send_alert
\* is awaited, without one execute_command returns.
completed_failure(l) ==
  /\ loops[l].pc = "Running"
  /\ loops[l].polling
  /\ child_of(procs, l, loops[l]).st = "failure"
  /\ LET lp == [loops[l] EXCEPT !.captured = wait_with_output(Tasks[loops[l].task].writes)]
     IN loops' = [loops EXCEPT ![l] =
          IF alert_on_failure(lp)
            THEN suspend([lp EXCEPT !.pc = "Alerting", !.proc = -1, !.alerts = @ + 1])
            ELSE execute_command_return(lp, "Failed", now)]
  /\ procs' = reap(procs, loops')
  /\ UNCHANGED <<now, job_handles, rpc, draining, pending, config, gen, daemon, rejected, cli>>

\* The post of send_alert has the result r: an Err of send() (transport), a
\* response that is not a success status, or a success.
alert_returned(l) ==
  /\ loops[l].pc = "Alerting"
  /\ loops[l].polling
  /\ \E r \in AlertResults : loops' = [loops EXCEPT ![l] = send_alert(loops[l], r, now)]
  /\ UNCHANGED <<now, job_handles, procs, rpc, draining, pending, config, gen, daemon, rejected, cli>>

\* time::timeout elapsed with the child still running: kill -9 <pid> is
\* spawned (Command::status spawns at once) and its status is awaited.
timeout_elapsed(l) ==
  /\ loops[l].pc = "Running"
  /\ loops[l].polling
  /\ child_of(procs, l, loops[l]).st = "running"
  /\ timed_out(loops[l], loops[l].proc, now)
  /\ \E ok \in BOOLEAN :
       /\ loops' = [loops EXCEPT ![l] =
            suspend([loops[l] EXCEPT !.pc = "Killing", !.proc = -1, !.kills = @ + 1,
                                     !.kill = IF ok THEN "ok" ELSE "failed"])]
       /\ procs' = reap(kill_child(procs, child_of(procs, l, loops[l]), ok), loops')
  /\ UNCHANGED <<now, job_handles, rpc, draining, pending, config, gen, daemon, rejected, cli>>

\* kill's status is in: Err(TimedOut) is logged and execute_command returns.
kill_returned(l) ==
  /\ loops[l].pc = "Killing"
  /\ loops[l].polling
  /\ loops' = [loops EXCEPT ![l] = kill_status(loops[l], now)]
  /\ UNCHANGED <<now, job_handles, procs, rpc, draining, pending, config, gen, daemon, rejected, cli>>

(* ---------------------------- environment ------------------------------ *)
\* A running child exits by itself, with a success or a failure status.
child_exits(p) ==
  /\ p.st = "running"
  /\ \E s \in {"success", "failure"} :
       procs' = reap((procs \ {p}) \cup {[p EXCEPT !.st = s]}, loops)
  /\ UNCHANGED <<now, job_handles, loops, rpc, draining, pending, config, gen, daemon, rejected, cli>>

\* The clock advances by one tick.
tick ==
  /\ now < MaxTime
  /\ now' = now + 1
  /\ UNCHANGED <<job_handles, loops, procs, rpc, draining, pending, config, gen, daemon, rejected, cli>>

(* ----------------------- one-shot subcommands -------------------------- *)
\* What the daemon owns; no one-shot subcommand has any of it.
daemon_vars == <<job_handles, loops, procs, rpc, draining, pending, config, gen,
                 daemon, rejected>>

\* process::exit(code), or the return of the handler and of main (code 0).
process_exit(c, code) == [c EXCEPT !.pc = "exited", !.exit = code]

\* config.tasks.iter().find(|t| t.name == task_name): the index of the first
\* task of that name, 0 for None.
find_mut_Last(ts, name) ==
  IF \E i \in 1..Len(ts) : ts[i].name = name
    THEN CHOOSE i \in 1..Len(ts) :
           ts[i].name = name /\ \A j \in (i + 1)..Len(ts) : ts[j].name # name
    ELSE 0

find(ts, name) ==
  IF \E i \in 1..Len(ts) : ts[i].name = name
    THEN CHOOSE i \in 1..Len(ts) :
           ts[i].name = name /\ \A j \in 1..(i - 1) : ts[j].name # name
    ELSE 0

\* cmd_to_run.envs(envs) on a Command that inherits the environment
\* `inherited`: the keys of envs are set, the others are inherited.
envs_mut_InheritedWins(inherited, e) ==
  [k \in DOMAIN inherited \cup DOMAIN e |->
     IF k \in DOMAIN inherited THEN inherited[k] ELSE e[k]]

envs(inherited, e) ==
  [k \in DOMAIN inherited \cup DOMAIN e |->
     IF k \in DOMAIN e THEN e[k] ELSE inherited[k]]

\* cmd_to_run.current_dir(dir) in a process whose working directory is base:
\* the child starts in dir (a relative dir is taken from base); without a
\* cwd it starts in base.
current_dir(base, dir) ==
  IF dir = NoCwd THEN base
  ELSE IF dir[1] = "/" THEN dir ELSE base \o dir

\* The task that handle_exec_command found, as execute_command's parameters.
found_task(c) == [task |-> c.tasks[c.found].task]

\* execute_command has returned with outcome o: "Manual execution finished.",
\* and handle_exec_command and main return.
exec_finished(c, o) == process_exit([c EXCEPT !.outcome = o], 0)

\* handle_check_command: core_check_config, and process::exit(1) on Err.
handle_check_command ==
  /\ cli.cmd = "check"
  /\ cli.pc = "check"
  /\ cli' = process_exit(cli, IF load_config(cli.file) = Err THEN 1 ELSE 0)
  /\ UNCHANGED <<now, daemon_vars>>

\* handle_exec_command up to core_check_config: process::exit(1) on Err.
exec_core_check_config ==
  /\ cli.cmd = "exec"
  /\ cli.pc = "check"
  /\ cli' = IF load_config(cli.file) = Err
              THEN process_exit(cli, 1)
              ELSE [cli EXCEPT !.pc = "load"]
  /\ UNCHANGED <<now, daemon_vars>>

\* Somebody rewrites the file between core_check_config and load_config.
file_rewritten ==
  /\ cli.cmd = "exec"
  /\ cli.pc = "load"
  /\ cli.edits < MaxEdits
  /\ \E f \in Files \ {cli.file} : cli' = [cli EXCEPT !.file = f, !.edits = @ + 1]
  /\ UNCHANGED <<now, daemon_vars>>

\* handle_exec_command from load_config on: Err is logged and the handler
\* returns; a task_name that find() does not find is process::exit(1); for the
\* task found execute_command is called, which spawns the command: Err, it
\* logs and returns; Ok, it awaits the child.
handle_exec_command ==
  /\ cli.cmd = "exec"
  /\ cli.pc = "load"
  /\ LET cfg == load_config(cli.file)
         i == find(cfg, cli.task_name)
         c == [cli EXCEPT !.loaded = TRUE, !.tasks = cfg, !.found = i]
         x == [c EXCEPT !.execs = @ + 1]
         t == Tasks[cfg[i].task]
     IN IF cfg = Err THEN cli' = process_exit(cli, 0)
        ELSE IF i = 0 THEN cli' = process_exit(c, 1)
        ELSE \/ cli' = exec_finished(x, "SpawnFailed")
             \/ cli' = [x EXCEPT !.pc = "Running",
                                 !.child = [st |-> "running", kill |-> "none",
                                            env |-> envs(cli.environ, t.env),
                                            cwd |-> current_dir(DaemonCwd, t.cwd),
                                            start |-> now]]
  /\ UNCHANGED <<now, daemon_vars>>

\* The child of the manual execution exits by itself.
exec_child_exits ==
  /\ cli.pc = "Running"
  /\ cli.child.st = "running"
  /\ \E st \in {"success", "failure"} : cli' = [cli EXCEPT !.child.st = st]
  /\ UNCHANGED <<now, daemon_vars>>

\* execute_command sees the child's exit: success, or failure with or
\* without send_alert.
exec_completed ==
  /\ cli.pc = "Running"
  /\ cli.child.st \in {"success", "failure"}
  /\ LET c == [cli EXCEPT !.captured = wait_with_output(Tasks[found_task(cli).task].writes)]
     IN cli' = IF cli.child.st = "success" THEN exec_finished(c, "Success")
               ELSE IF alert_on_failure(found_task(cli))
                 THEN [c EXCEPT !.pc = "Alerting", !.alerts = @ + 1]
                 ELSE exec_finished(c, "Failed")
  /\ UNCHANGED <<now, daemon_vars>>

\* send_alert has returned, with the result r of its post.
exec_alert_returned ==
  /\ cli.pc = "Alerting"
  /\ \E r \in AlertResults : cli' = exec_finished([cli EXCEPT !.delivery = r], "Failed")
  /\ UNCHANGED <<now, daemon_vars>>

\* time::timeout elapsed with the child running: kill -9 <pid>.
exec_timeout_elapsed ==
  /\ cli.pc = "Running"
  /\ cli.child.st = "running"
  /\ timed_out(found_task(cli), cli.child.start, now)
  /\ \E ok \in BOOLEAN :
       cli' = [cli EXCEPT !.pc = "Killing",
                          !.child.st = IF ok THEN "killed" ELSE "running",
                          !.child.kill = IF ok THEN "done" ELSE "failed"]
  /\ UNCHANGED <<now, daemon_vars>>

\* kill's status is in: Err(TimedOut) is logged and execute_command returns.
exec_kill_returned ==
  /\ cli.pc = "Killing"
  /\ cli' = exec_finished(cli, "TimedOut")
  /\ UNCHANGED <<now, daemon_vars>>

\* A step of the process of a one-shot subcommand.
NextCli ==
  \/ handle_check_command
  \/ exec_core_check_config
  \/ file_rewritten
  \/ handle_exec_command
  \/ exec_child_exits
  \/ exec_completed
  \/ exec_alert_returned
  \/ exec_timeout_elapsed
  \/ exec_kill_returned
  \/ tick

\* `chronsync check` or `chronsync exec <task_name>`, started with any file
\* and environment.
InitCli ==
  /\ now = 0
  /\ job_handles = <<>>
  /\ loops = <<>>
  /\ procs = {}
  /\ rpc = "idle"
  /\ draining = <<>>
  /\ pending = <<>>
  /\ config = <<>>
  /\ gen = 0
  /\ daemon = "none"
  /\ rejected = 0
  /\ cli \in {cli_start("check", "", f, e) : f \in Files, e \in Environs}
            \cup {cli_start("exec", n, f, e) : n \in TaskNames, f \in Files, e \in Environs}

CliSpec == InitCli /\ [][NextCli]_vars

\* A step of the daemon whose configuration file holds, at every load, one of
\* the configurations cs or something that fails to load.
NextOver(cs) ==
  \/ core_check_config
  \/ initial_load_failed
  \/ \E c \in cs : initial_load(c)
  \/ \E c \in cs : reload_signal(c)
  \/ reload_rejected
  \/ ctrl_c
  \/ cancel_handle
  \/ begin_registering
  \/ register_task_spawn
  \/ register_task_store
  \/ reload_tasks_return
  \/ \E l \in LoopIds : poll(l)
  \/ \E l \in LoopIds : first_poll(l)
  \/ \E l \in LoopIds : execute_command(l)
  \/ \E l \in LoopIds : completed_success(l)
  \/ \E l \in LoopIds : completed_failure(l)
  \/ \E l \in LoopIds : alert_returned(l)
  \/ \E l \in LoopIds : timeout_elapsed(l)
  \/ \E l \in LoopIds : kill_returned(l)
  \/ \E p \in procs : child_exits(p)
  \/ tick

Next == NextOver(Configs)

Spec == Init /\ [][Next]_vars

\* The daemon over configurations of at most one task, of any kind the task
\* table has (every timeout: absent, 0, positive).
NextSingle == NextOver(SingleConfigs)

SingleSpec == Init /\ [][NextSingle]_vars

\* A step of reload_tasks once it is entered. reload_tasks is a synchronous
\* function without .await: the thread that runs it goes from one statement
\* to the next, and each lock() it takes is held by anyone else for one
\* statement only.
reload_step ==
  \/ cancel_handle
  \/ begin_registering
  \/ register_task_spawn
  \/ register_task_store
  \/ reload_tasks_return

\* The daemon of SingleSpec with reload_tasks running on once entered. Nothing
\* is assumed of the job loops, the child processes or the clock: a command
\* may run for ever and a loop may never be polled.
FairSingleSpec == SingleSpec /\ WF_vars(reload_step)

\* A step of job loop l: a worker starts polling it, or the poll runs.
loop_step(l) ==
  /\ l \in LoopIds
  /\ \/ poll(l)
     \/ first_poll(l)
     \/ execute_command(l)
     \/ completed_success(l)
     \/ completed_failure(l)
     \/ alert_returned(l)
     \/ timeout_elapsed(l)
     \/ kill_returned(l)

\* The configuration of two sibling tasks, one of which has no timeout (its
\* command may run for ever), and the empty one.
SiblingConfigs == {<<>>, <<4, 1>>}

NextSiblings == NextOver(SiblingConfigs)

\* The daemon over SiblingConfigs under fair scheduling: the clock advances,
\* reload_tasks runs on, and the runtime polls every task that has been woken
\* (a job loop only ever waits in an .await, so it never holds a worker).
\* Nothing is assumed of the child processes: a command may never exit.
FairSiblingSpec ==
  /\ Init
  /\ [][NextSiblings]_vars
  /\ WF_vars(tick)
  /\ WF_vars(reload_step)
  /\ \A l \in 1..MaxLoops : WF_vars(loop_step(l))

(* ------------------------------- claims -------------------------------- *)
\* The loop is active: it is at one of its suspension points or being polled.
Active(lp) == lp.pc \in Suspended

\* Schedule s has no occurrence after tick t.
Exhausted(s, t) == \A k \in (t + 1)..(t + s.period) : ~IsOccurrence(s, k)

\* One handle per entry of the configuration, in order, each for a loop that
\* this reload_tasks call spawned for that entry, and no other handle.
HandlesMatchConfig ==
  /\ Len(job_handles) = Len(config)
  /\ \A i \in 1..Len(job_handles) :
       /\ loops[job_handles[i]].task = config[i]
       /\ loops[job_handles[i]].gen = gen
       /\ \A j \in 1..Len(job_handles) : job_handles[i] = job_handles[j] => i = j
  /\ \A l \in LoopIds : loops[l].gen = gen => \E i \in 1..Len(job_handles) : job_handles[i] = l

\* C1 as stated: when reload_tasks(C) returns, job_handles holds exactly one
\* handle per entry of C and none of an earlier configuration, and every
\* entry's job loop is active.
C1_Original ==
  [][(rpc = "register" /\ rpc' = "idle") =>
       (HandlesMatchConfig /\ \A i \in 1..Len(job_handles) : Active(loops[job_handles[i]]))']_vars

\* C1, amended: whenever reload_tasks is not running, job_handles holds exactly
\* one handle per entry of the last configuration, in order, each for a loop
\* spawned by the last reload_tasks call for that entry, and no handle of an
\* earlier call; each of these loops has not been aborted and is active,
\* unless its schedule has no further occurrence and it has ended.
C1_ReloadReplacesHandles ==
  rpc = "idle" =>
    /\ HandlesMatchConfig
    /\ \A i \in 1..Len(job_handles) :
         LET lp == loops[job_handles[i]]
         IN /\ ~lp.aborted
            /\ \/ Active(lp)
               \/ lp.pc = "Ended" /\ Exhausted(schedule_of(lp), now)

\* C1's case: a second reload_tasks has returned, with a configuration that
\* names the same task twice, after a first one that had spawned loops; one of
\* the new loops has already ended on its exhausted schedule.
C1_Witness ==
  /\ rpc = "idle"
  /\ gen = 2
  /\ Len(config) = 2
  /\ config[1] = config[2]
  /\ \E l \in LoopIds : loops[l].gen = 1
  /\ \E i \in 1..Len(job_handles) : loops[job_handles[i]].pc = "Ended"

\* C2 as stated: once a later reload_tasks call has begun registering its
\* loops, no loop of an earlier call invokes the Executor.
C2_Original ==
  [][\A l \in LoopIds :
       (loops[l].gen < gen /\ rpc # "cancel") => loops'[l].execs = loops[l].execs]_vars

\* A running process that the Executor of a loop nobody has aborted is awaiting.
Running(p) == p.st = "running"

Awaited(p) ==
  /\ loops[p.loop].pc = "Running"
  /\ loops[p.loop].proc = p.start
  /\ ~loops[p.loop].aborted

\* Two loops spawned for two entries of one configuration.
SameConfigEntries(p, q) ==
  p.loop # q.loop /\ loops[p.loop].gen = loops[q.loop].gen

\* C3 as stated: a task never has two child processes running, over any
\* sequence of fires, executions and reloads (two entries of one configuration
\* that name the same task are two tasks).
C3_Original ==
  \A p, q \in procs :
    (p # q /\ p.task = q.task /\ Running(p) /\ Running(q)) => SameConfigEntries(p, q)

\* C3, amended: of the running child processes of one task, at most one is
\* awaited by the Executor of a job loop that has not been aborted; any other
\* is one that a reload left behind when it aborted its loop, or one whose
\* timeout kill failed.
C3_OneAwaitedRun ==
  \A p, q \in procs :
    (p # q /\ p.task = q.task /\ Running(p) /\ Running(q) /\ Awaited(p) /\ Awaited(q))
      => SameConfigEntries(p, q)

\* C3's case: a reload has supplied the same task again while its previous
\* run is in flight, and both the old and the new loop's process run.
C3_Witness ==
  \E p, q \in procs :
    /\ p.task = q.task /\ Running(p) /\ Running(q)
    /\ loops[p.loop].gen < loops[q.loop].gen
    /\ loops[p.loop].pc = "Cancelled"
    /\ Awaited(q)

\* C4: within one job loop executions are strictly sequential: the loop invokes
\* the Executor only when its previous invocation has returned, it never has
\* more than one awaited child, and it computes a fire instant only when no
\* invocation of its own is in progress.
C4_SequentialExecutions ==
  [][\A l \in LoopIds :
       /\ loops'[l].execs > loops[l].execs => ~loops[l].busy
       /\ loops'[l].next # loops[l].next => ~loops'[l].busy
       /\ loops'[l].busy => loops'[l].pc \in {"Waiting", "Running", "Killing", "Alerting", "Cancelled"}
       /\ loops'[l].pc = "Waiting" /\ ~loops'[l].polling => ~loops'[l].busy]_vars

\* C4's case: a loop is in its second execution, after its first has returned.
C4_Witness ==
  \E l \in LoopIds :
    loops[l].execs = 2 /\ loops[l].busy /\ loops[l].ret # -1 /\ loops[l].pc = "Running"

\* C5: a run that overruns its interval makes the loop skip the ticks it
\* covered: once an execution has returned at clock c, the instant the loop
\* waits for is the first occurrence of its schedule strictly after c, and the
\* instant of any execution in progress is after the previous return.
C5_MissedTicksSkipped ==
  \A l \in LoopIds :
    LET lp == loops[l]
        s == schedule_of(lp)
    IN /\ (lp.ret # -1 /\ ~lp.busy /\ lp.pc = "Waiting") =>
            /\ lp.next > lp.ret
            /\ IsOccurrence(s, lp.next)
            /\ \A k \in (lp.ret + 1)..(lp.next - 1) : ~IsOccurrence(s, k)
       /\ (lp.ret # -1 /\ ~lp.busy /\ lp.pc = "Ended") => Exhausted(s, lp.ret)
       /\ lp.busy => lp.fire > lp.ret /\ IsOccurrence(s, lp.fire)

\* C5's case: an execution ran over an occurrence of the schedule (it fired
\* for an instant before it and returned at or after it), and the loop now
\* waits for an instant after the return.
C5_Witness ==
  \E l \in LoopIds :
    /\ loops[l].pc = "Waiting" /\ ~loops[l].busy /\ loops[l].ret # -1
    /\ loops[l].outcome \in {"Success", "Failed"}
    /\ \E k \in (loops[l].fire + 1)..loops[l].ret : IsOccurrence(schedule_of(loops[l]), k)
    /\ loops[l].next > loops[l].ret

C7_Original ==
  \A p \in procs :
    (Running(p) /\ p.kill = "none" /\ Tasks[p.task].timeout # NoTimeout
       /\ now >= p.start + Tasks[p.task].timeout)
      => loops[p.loop].pc = "Running" /\ loops[p.loop].proc = p.start

RunningChildren == {p \in procs : Running(p)}

\* C8: reload_tasks never terminates a child process: a running child stops
\* running only by exiting or through the kill of execute_command's timeout
\* path, and no step of reload_tasks changes the child processes.
C8_ReloadKillsNothing ==
  [][/\ \A p \in procs :
          Running(p) => \/ p \in procs'
                        \/ child_exits(p)
                        \/ timeout_elapsed(p.loop) /\ loops[p.loop].proc = p.start
     /\ <<rpc, draining, pending, job_handles, config, gen>>'
           # <<rpc, draining, pending, job_handles, config, gen>>
          => RunningChildren' = RunningChildren]_vars

\* C8's case: reload_tasks has cancelled a loop whose child is still running.
C8_Witness ==
  \E p \in procs :
    Running(p) /\ loops[p.loop].pc = "Cancelled" /\ loops[p.loop].proc = p.start

\* C9: a loop whose schedule has no next occurrence when first asked ends
\* without ever invoking the Executor; a loop is over only when its schedule
\* has no further occurrence (Ended) or it was aborted (Cancelled); and a loop
\* that has ended never executes again.
C9_EndsOnlyOnExhaustion ==
  /\ [](\A l \in LoopIds :
          /\ loops[l].first = "none" => loops[l].execs = 0 /\ loops[l].pc = "Ended"
          /\ loops[l].pc = "Ended" => Exhausted(schedule_of(loops[l]), now)
          /\ loops[l].pc = "Cancelled" => loops[l].aborted)
  /\ [][\A l \in LoopIds :
          loops[l].pc = "Ended" =>
            loops'[l].pc = "Ended" /\ loops'[l].execs = loops[l].execs]_vars

\* C9's case: a loop found its schedule exhausted when it first asked, and has
\* ended without an execution.
C9_Witness ==
  \E l \in LoopIds :
    loops[l].first = "none" /\ loops[l].pc = "Ended" /\ loops[l].execs = 0

\* C10: when an invocation of the Executor returns, whatever its outcome, a
\* loop that was not aborted goes back to computing: it waits for the next
\* occurrence, or ends because the schedule has none; so a command that cannot
\* be spawned is tried again at the next tick.
C10_OutcomeNeverEndsLoop ==
  [][\A l \in LoopIds :
       (~loops'[l].busy /\ (loops[l].busy \/ loops'[l].execs > loops[l].execs)
          /\ ~loops[l].aborted) =>
         /\ loops'[l].outcome \in {"SpawnFailed", "TimedOut", "Failed", "Success"}
         /\ \/ /\ loops'[l].pc = "Waiting"
               /\ loops'[l].next > now
               /\ IsOccurrence(schedule_of(loops[l]), loops'[l].next)
            \/ /\ loops'[l].pc = "Ended"
               /\ Exhausted(schedule_of(loops[l]), now)]_vars

\* C10's case: a loop whose command could not be spawned is running it again.
C10_Witness ==
  \E l \in LoopIds :
    loops[l].outcome = "SpawnFailed" /\ loops[l].execs = 2 /\ loops[l].busy

\* C11: an Executor invocation that has reached its outcome has called
\* send_alert exactly once when the child exited with a failure status and the
\* task has a webhook_url, and never otherwise (success, no webhook_url, spawn
\* failure, timeout); an invocation in progress has called it at most once,
\* and only after a failure exit.
C11_AlertOnlyOnFailedExit ==
  \A l \in LoopIds :
    LET lp == loops[l]
    IN /\ (lp.ret # -1 /\ ~lp.busy) =>
            lp.alerts = IF lp.outcome = "Failed" /\ Tasks[lp.task].webhook_url
                          THEN 1 ELSE 0
       /\ (lp.busy /\ lp.pc # "Cancelled") =>
            lp.alerts = IF lp.pc = "Alerting" THEN 1 ELSE 0
       /\ lp.alerts \in {0, 1}

\* C11's case: of two loops of the task with a webhook_url, one's execution
\* failed and alerted once, the other's timed out and alerted nobody.
C11_Witness ==
  \E a, b \in LoopIds :
    /\ Tasks[loops[a].task].webhook_url /\ Tasks[loops[b].task].webhook_url
    /\ ~loops[a].busy /\ loops[a].outcome = "Failed" /\ loops[a].alerts = 1
    /\ ~loops[b].busy /\ loops[b].outcome = "TimedOut" /\ loops[b].alerts = 0

\* The running child processes that an Executor invocation of loop l spawned.
RunningChildrenOf(l) == {p \in procs : p.loop = l /\ Running(p)}

\* C12 as stated: once the Executor has returned TimedOut, the process it
\* spawned is no longer running.
C12_Original ==
  \A l \in LoopIds :
    (~loops[l].busy /\ loops[l].outcome = "TimedOut") => RunningChildrenOf(l) = {}

\* C12, amended: an Executor that finds the child still running when the
\* task's timeout has elapsed issues the kill and then returns TimedOut,
\* whatever the kill's result; once it has returned, the process is no longer
\* running unless that kill failed.
C12_TimedOutKillsChild ==
  /\ [](\A l \in LoopIds :
          (~loops[l].busy /\ loops[l].outcome = "TimedOut") =>
            /\ timeout_of(loops[l]) # NoTimeout
            /\ loops[l].ret >= loops[l].fire + timeout_of(loops[l])
            /\ \A p \in RunningChildrenOf(l) : p.kill = "failed")
  /\ [][\A l \in LoopIds :
          /\ (loops[l].pc = "Running" /\ loops[l].polling /\ loops'[l].pc # "Running"
                /\ Running(child_of(procs, l, loops[l]))
                /\ timed_out(loops[l], loops[l].proc, now)) =>
               /\ loops'[l].pc \in {"Killing", "Cancelled"}
               /\ LET p == child_of(procs, l, loops[l])
                  IN \/ \A q \in procs' : ~(q.loop = l /\ q.start = p.start)
                     \/ [p EXCEPT !.kill = "failed"] \in procs'
          /\ (loops[l].pc = "Killing" /\ loops'[l].pc \notin {"Killing", "Cancelled"}) =>
               loops'[l].outcome = "TimedOut" /\ ~loops'[l].busy]_vars

\* C12's case: an execution has timed out, the kill went through, and the
\* Executor has returned TimedOut with no process of the loop left running.
C12_Witness ==
  \E l \in LoopIds :
    /\ ~loops[l].busy /\ loops[l].outcome = "TimedOut" /\ loops[l].pc = "Waiting"
    /\ RunningChildrenOf(l) = {}

\* C13 as stated: an Executor invocation whose child completed (before the
\* timeout, or with none set) has the outcome Completed with the child's exit
\* status and with the child's output captured: what the command wrote is in
\* the outcome's streams; and it is not TimedOut.
C13_Original ==
  \A l \in LoopIds :
    (~loops[l].busy /\ loops[l].outcome \in {"Success", "Failed"}) =>
      loops[l].captured = Tasks[loops[l].task].writes

\* The Executor of loop l is awaiting a child that is still running.
AwaitsRunningChild(l) ==
  loops[l].pc = "Running" /\ Running(child_of(procs, l, loops[l]))

\* C14: timeout 0 is not "no timeout". With timeout 0 the Executor that awaits
\* a child still running is due for the timeout path from the moment of the
\* spawn, and when it runs it issues the kill and goes on to TimedOut. With
\* the timeout absent the Executor that awaits a running child is never due,
\* however late it is; it never kills and never returns TimedOut.
C14_ZeroIsNotAbsent ==
  /\ [](\A l \in LoopIds :
          /\ (timeout_of(loops[l]) = 0 /\ AwaitsRunningChild(l)) => ready(l, loops[l])
          /\ timeout_of(loops[l]) = NoTimeout =>
               /\ AwaitsRunningChild(l) => ~ready(l, loops[l])
               /\ loops[l].pc # "Killing"
               /\ loops[l].outcome # "TimedOut"
               /\ \A p \in procs : p.loop = l => p.kill = "none")
  /\ [][\A l \in LoopIds :
          (timeout_of(loops[l]) = 0 /\ AwaitsRunningChild(l)
             /\ loops'[l].pc \notin {"Running", "Cancelled"}) =>
            /\ loops'[l].pc = "Killing"
            /\ loops'[l].busy
            /\ \A p \in procs' : (p.loop = l /\ Running(p)) => p.kill = "failed"]_vars

\* C14's case: an execution of the task with timeout 0 has returned TimedOut
\* in the very tick it fired, and a child of the task without timeout, spawned
\* a tick ago, is still running with no kill issued.
C14_Witness ==
  \E a \in LoopIds :
    /\ timeout_of(loops[a]) = 0
    /\ ~loops[a].busy /\ loops[a].outcome = "TimedOut" /\ loops[a].ret = loops[a].fire
    /\ \E p \in procs :
         /\ Tasks[p.task].timeout = NoTimeout
         /\ Running(p) /\ p.kill = "none" /\ now > p.start

\* The running set: the handle collection, every job loop with its handle
\* cell, and the reload bookkeeping.
running_set == <<job_handles, loops, rpc, draining, pending, config, gen>>

\* C15: handling a reload signal whose configuration fails to load changes
\* nothing of the running set (no handle is taken or aborted, no loop is
\* spawned, job_handles is the same); and it is the only way of handling a
\* reload signal that does not replace the running set: every other one enters
\* reload_tasks, which empties job_handles and goes through every old handle,
\* so that whenever the event loop is back waiting, every handle is one of the
\* last configuration that loaded.
C15_RejectedReloadKeepsJobs ==
  /\ [][rejected' # rejected => UNCHANGED <<running_set, procs, daemon>>]_vars
  /\ [][(daemon = "serving" /\ rpc = "idle" /\ rpc' # "idle") =>
          /\ rejected' = rejected
          /\ gen' = gen + 1
          /\ job_handles' = <<>>
          /\ draining' = job_handles]_vars
  /\ [](daemon = "serving" /\ rpc = "idle" =>
          /\ Len(job_handles) = Len(config)
          /\ \A i \in 1..Len(job_handles) :
               loops[job_handles[i]].gen = gen /\ loops[job_handles[i]].task = config[i])

\* C15's case: a reload signal has been rejected, and a loop of the initial
\* configuration, still held by its handle and not aborted, is in its second
\* execution.
C15_Witness ==
  /\ rejected = 1 /\ gen = 1 /\ daemon = "serving" /\ rpc = "idle"
  /\ Len(job_handles) = 2
  /\ \E i \in 1..Len(job_handles) :
       LET lp == loops[job_handles[i]]
       IN lp.cell /\ ~lp.aborted /\ lp.execs = 2 /\ lp.pc = "Running"

\* C16 as stated: once the daemon has handled Ctrl+C (reload_tasks with the
\* empty configuration has returned and the event loop is left), job_handles
\* is empty and stays so, no job loop invokes the Executor any more, and no
\* reload signal is handled.
C16_Original ==
  [][daemon = "exited" =>
       /\ job_handles = <<>> /\ job_handles' = <<>>
       /\ gen' = gen /\ rejected' = rejected
       /\ \A l \in LoopIds : loops'[l].execs = loops[l].execs]_vars

\* The step is a failure of loop l's own: its Executor returns SpawnFailed,
\* TimedOut or a failure exit status, or takes the timeout path or the alert
\* (whose delivery may fail), or the loop ends on its exhausted schedule.
FailureStep(l) ==
  \/ /\ ~loops'[l].busy /\ (loops[l].busy \/ loops'[l].execs > loops[l].execs)
     /\ loops'[l].outcome \in {"SpawnFailed", "TimedOut", "Failed"}
  \/ loops[l].pc # "Killing" /\ loops'[l].pc = "Killing"
  \/ loops[l].pc # "Alerting" /\ loops'[l].pc = "Alerting"
  \/ loops[l].pc = "Alerting" /\ loops'[l].pc \notin {"Alerting", "Cancelled"}
  \/ loops[l].pc # "Ended" /\ loops'[l].pc = "Ended"

\* C17: a failure of one task's loop (spawn failure, timeout, failure exit
\* status, alert, schedule exhaustion) changes nothing outside that loop: every
\* other loop and its handle cell, every other loop's child processes,
\* job_handles, the reload in progress and the daemon's event loop are as
\* before.
C17_FailuresContained ==
  [][\A l \in LoopIds :
       FailureStep(l) =>
         /\ \A m \in LoopIds \ {l} : loops'[m] = loops[m]
         /\ Len(loops') = Len(loops)
         /\ {p \in procs' : p.loop # l} = {p \in procs : p.loop # l}
         /\ UNCHANGED <<job_handles, rpc, draining, pending, config, gen, daemon, rejected>>]_vars

\* C17's case: of the two loops of one configuration, one has run into a
\* timeout and the other has had a failing command and then ended on its
\* exhausted schedule; the first goes on waiting for its next instant, both
\* handles are in job_handles and the daemon serves.
C17_Witness ==
  /\ daemon = "serving" /\ rpc = "idle" /\ Len(job_handles) = 2
  /\ \E a, b \in LoopIds :
       /\ a # b /\ loops[a].gen = gen /\ loops[b].gen = gen
       /\ loops[a].outcome = "Failed" /\ loops[a].pc = "Ended"
       /\ loops[b].outcome = "TimedOut" /\ loops[b].pc = "Waiting"
       /\ ~loops[b].aborted /\ loops[b].cell

\* Loop b is a loop that the reload which aborted loop a spawned for the same
\* task (the task is in the old and in the new configuration, with the same
\* schedule).
Succeeds(b, a) ==
  /\ loops[a].aborted
  /\ loops[b].task = loops[a].task
  /\ loops[b].gen > loops[a].gen
  /\ \A m \in LoopIds : loops[m].gen > loops[a].gen => loops[m].gen >= loops[b].gen

\* C18 as stated: the fire instant that an old loop was waiting for, and had
\* not executed, when the reload cancelled it is executed by the new loop of
\* the task: the new loop, asking its schedule for the first time, does not
\* get a later instant (nor none at all).
C18_Original ==
  \A a, b \in LoopIds :
    (Succeeds(b, a) /\ loops[a].pc = "Cancelled" /\ ~loops[a].busy
       /\ loops[a].next # NoNext /\ loops[a].next \notin loops[a].fired
       /\ loops[b].first # "unasked" /\ loops[b].execs = 0) =>
      loops[b].first = "some" /\ loops[b].next <= loops[a].next

\* C19: no fire instant is executed both by a loop that a reload aborted and
\* by a loop that a later reload spawned for the same task.
C19_NoDuplicateAcrossReload ==
  \A a, b \in LoopIds :
    (loops[a].aborted /\ loops[b].task = loops[a].task /\ loops[b].gen > loops[a].gen) =>
      /\ loops[a].fired \cap loops[b].fired = {}
      /\ \A i \in loops[a].fired : \A j \in loops[b].fired : i < j
      /\ loops[b].next # NoNext => \A i \in loops[a].fired : i < loops[b].next

\* C19's case: the old loop of a task executed an instant and was cancelled by
\* the reload while that run was in flight; the new loop of the task has
\* executed the following instant.
C19_Witness ==
  \E a, b \in LoopIds :
    /\ Succeeds(b, a)
    /\ loops[a].pc = "Cancelled" /\ loops[a].busy /\ loops[a].fired = {1}
    /\ loops[b].fired = {2}

\* Nothing has been applied or started: reload_tasks was never called, there
\* is no handle, no job loop, no child process.
NothingStarted ==
  gen = 0 /\ job_handles = <<>> /\ loops = <<>> /\ procs = {} /\ rpc = "idle"

\* C20: until the first configuration has loaded nothing is started; when it
\* fails to validate (core_check_config) or to load (the initial load_config)
\* the daemon ends there (process::exit(1), or return from
\* handle_run_command), never entering the event loop; and a daemon that has
\* ended that way never applies a configuration nor starts a job loop.
C20_StartupFailureIsFatal ==
  /\ []((daemon \in {"check", "load", "failed"} \/ (daemon = "exited" /\ gen = 0))
         => NothingStarted)
  /\ [][(daemon \in {"check", "load"} /\ daemon' # daemon /\ gen' = gen) =>
          \/ daemon = "check" /\ daemon' \in {"load", "failed"}
          \/ daemon = "load" /\ daemon' = "exited"]_vars
  /\ [][(daemon \in {"failed", "exited"}) =>
          /\ daemon' = daemon
          /\ gen' = gen
          /\ rejected' = rejected
          /\ Len(loops') = Len(loops)]_vars

\* C20's case: the initial load_config has failed (after core_check_config had
\* passed), the daemon has returned, and time has gone on with nothing started.
C20_Witness ==
  daemon = "exited" /\ gen = 0 /\ NothingStarted /\ now > 0

\* The indices of the loaded configuration's tasks whose name is n.
Matching(n) == {i \in 1..Len(cli.tasks) : cli.tasks[i].name = n}

\* C21: a manual execution (chronsync exec) never has a scheduler state, a
\* handle or a job loop, and calls execute_command at most once. With a
\* configuration loaded in which no task has the given name, the process has
\* exited with status 1 without calling execute_command. With one in which
\* some task has the name, execute_command has been called exactly once, for
\* the first task of that name.
C21_ManualExecution ==
  cli.cmd = "exec" =>
    /\ NothingStarted
    /\ cli.execs \in {0, 1}
    /\ cli.execs = 1 => cli.loaded
    /\ (cli.loaded /\ Matching(cli.task_name) = {}) =>
         cli.pc = "exited" /\ cli.exit = 1 /\ cli.execs = 0 /\ cli.child = NoChild
    /\ (cli.loaded /\ Matching(cli.task_name) # {}) =>
         /\ cli.execs = 1
         /\ cli.found \in Matching(cli.task_name)
         /\ \A i \in Matching(cli.task_name) : cli.found <= i
         /\ cli.pc = "exited" => cli.exit = 0

\* C21's case: the loaded configuration has two tasks, neither of the name
\* asked for, and the process has exited with status 1.
C21_Witness ==
  /\ cli.cmd = "exec" /\ cli.loaded /\ Len(cli.tasks) = 2
  /\ Matching(cli.task_name) = {}
  /\ cli.pc = "exited" /\ cli.exit = 1 /\ cli.execs = 0

\* Object e of the file has a name, a command and a schedule string that
\* parses as a cron expression.
WellFormed(e) ==
  /\ e.name # Missing
  /\ e.command # Missing
  /\ e.cron_schedule # <<Missing>>
  /\ Schedule_from_str(e.cron_schedule)

\* C22: load_config yields a configuration only for a file in which every
\* task has a name, a command and a schedule string that parses, and then the
\* configuration has every task of the file, in order; for a file with any
\* task that lacks one of them or whose schedule does not parse (or for no
\* file) it fails, yielding nothing. chronsync check ends with status 1 when
\* it fails and 0 when it does not, and a manual execution that has loaded a
\* configuration holds the whole of a file that is well-formed throughout.
C22_LoadIsAllOrNothing ==
  LET f == cli.file
      r == load_config(f)
      good == f # NoFile /\ \A i \in 1..Len(f) : WellFormed(Entries[f[i]])
  IN /\ good =>
          /\ r # Err
          /\ Len(r) = Len(f)
          /\ \A i \in 1..Len(f) :
               r[i].name = Entries[f[i]].name /\ r[i].task = Entries[f[i]].task
     /\ ~good => r = Err
     /\ (cli.cmd = "check" /\ cli.pc = "exited") => cli.exit = IF good THEN 0 ELSE 1
     /\ cli.loaded => good /\ cli.tasks = r

\* C22's case: chronsync check on a file whose first task is well-formed and
\* whose second has a schedule that does not parse has exited with status 1.
C22_Witness ==
  /\ cli.cmd = "check" /\ cli.pc = "exited" /\ cli.exit = 1
  /\ cli.file # NoFile /\ Len(cli.file) = 2
  /\ WellFormed(Entries[cli.file[1]])
  /\ Entries[cli.file[2]].name # Missing
  /\ Entries[cli.file[2]].command # Missing
  /\ Entries[cli.file[2]].cron_schedule # <<Missing>>
  /\ ~Schedule_from_str(Entries[cli.file[2]].cron_schedule)

\* C23: send_alert makes one attempt: an Executor invocation never has more
\* than one post. When the post's result comes in, whatever it is (transport
\* error, non-2xx response, success), no further post is made, the Executor
\* returns with the outcome of the failed command, the loop (unless a reload
\* has aborted it) goes on to wait for its next occurrence, or ends because
\* its schedule has none, and the daemon is where it was.
C23_AlertFailureSwallowed ==
  /\ [](\A l \in LoopIds :
          /\ loops[l].alerts \in {0, 1}
          /\ loops[l].delivery # "none" => loops[l].alerts = 1 /\ loops[l].outcome = "Failed")
  /\ [][\A l \in LoopIds :
          (loops[l].pc = "Alerting" /\ loops'[l].delivery # loops[l].delivery) =>
            /\ loops'[l].delivery \in AlertResults
            /\ loops'[l].alerts = loops[l].alerts
            /\ loops'[l].outcome = "Failed"
            /\ ~loops'[l].busy
            /\ daemon' = daemon
            /\ ~loops[l].aborted =>
                 \/ /\ loops'[l].pc = "Waiting"
                    /\ loops'[l].next > now
                    /\ IsOccurrence(schedule_of(loops[l]), loops'[l].next)
                 \/ /\ loops'[l].pc = "Ended"
                    /\ Exhausted(schedule_of(loops[l]), now)]_vars

\* C23's case: the alerts of two loops came back, one with a transport error
\* and one with a non-2xx response; both Executors have returned and both
\* loops, not aborted, wait for an occurrence after that return.
C23_Witness ==
  \E a, b \in LoopIds :
    /\ loops[a].delivery = "transport error" /\ loops[b].delivery = "non-2xx"
    /\ \A l \in {a, b} :
         /\ loops[l].alerts = 1 /\ ~loops[l].busy /\ ~loops[l].aborted
         /\ loops[l].pc = "Waiting" /\ loops[l].next > loops[l].ret

\* C24: the child that execute_command spawns has the environment of the
\* process overridden by the task's env: every key of env has the task's
\* value (also a key the process has too), every other key of the process
\* keeps its value, and there is no further key; its working directory is the
\* task's cwd when the task has one (a relative cwd names a directory below
\* the process's working directory), and the process's own otherwise.
C24_ChildEnvironment ==
  cli.child.st # "none" =>
    LET t == Tasks[found_task(cli).task]
        child == cli.child
    IN /\ DOMAIN child.env = DOMAIN cli.environ \cup DOMAIN t.env
       /\ \A k \in DOMAIN t.env : child.env[k] = t.env[k]
       /\ \A k \in DOMAIN cli.environ \ DOMAIN t.env : child.env[k] = cli.environ[k]
       /\ (t.cwd # NoCwd /\ t.cwd[1] = "/") => child.cwd = t.cwd
       /\ (t.cwd # NoCwd /\ t.cwd[1] # "/") => child.cwd = DaemonCwd \o t.cwd
       /\ t.cwd = NoCwd => child.cwd = DaemonCwd

\* C24's case: the process has K and HOME in its environment, the task's env
\* sets K to another value and the task has a cwd; the child runs with the
\* task's K, the process's HOME and the task's cwd.
C24_Witness ==
  /\ cli.pc = "Running" /\ cli.child.st = "running"
  /\ "K" \in DOMAIN cli.environ
  /\ "K" \in DOMAIN Tasks[found_task(cli).task].env
  /\ cli.environ["K"] # Tasks[found_task(cli).task].env["K"]
  /\ cli.child.env["K"] = Tasks[found_task(cli).task].env["K"]
  /\ cli.child.env["HOME"] = cli.environ["HOME"]
  /\ cli.child.cwd = Tasks[found_task(cli).task].cwd

\* C25 as stated: cancellation does not cut an Executor invocation short: no
\* loop is ever cancelled (dropped for good) with an invocation that has
\* started and has not reached its outcome, so that every invocation still
\* gets to its outcome and to that outcome's kill or alert.
C25_Original ==
  \A l \in LoopIds : loops[l].pc = "Cancelled" => ~loops[l].busy

\* C26: inside one reload_tasks call every handle that job_handles held at
\* entry is dealt with (taken, and aborted when it held a join handle) before
\* the call spawns its first job loop: while handles are still to be
\* cancelled no loop of the call exists, and whenever a loop is spawned none
\* is left to cancel and every loop of an earlier call has an empty cell and
\* is aborted or has ended by itself. When the call returns, a loop has been
\* spawned for every task of its configuration.
C26_CancelThenStart ==
  /\ []((rpc = "cancel" \/ draining # <<>>) => \A l \in LoopIds : loops[l].gen < gen)
  /\ [][Len(loops') > Len(loops) =>
          /\ draining = <<>>
          /\ \A l \in LoopIds :
               loops[l].gen < gen =>
                 ~loops[l].cell /\ (loops[l].aborted \/ loops[l].pc = "Ended")]_vars
  /\ [][(rpc # "idle" /\ rpc' = "idle") =>
          /\ pending = <<>>
          /\ Len(job_handles) = Len(config)
          /\ \A i \in 1..Len(config) :
               /\ job_handles[i] \in LoopIds
               /\ loops[job_handles[i]].gen = gen
               /\ loops[job_handles[i]].task = config[i]
               /\ \A j \in 1..Len(config) : job_handles[i] = job_handles[j] => i = j]_vars

\* C26's case: the second reload_tasks call has returned; it found two
\* handles, aborted both loops, and then spawned the loop of its one task.
C26_Witness ==
  /\ rpc = "idle" /\ gen = 2 /\ Len(config) = 1 /\ Len(job_handles) = 1
  /\ loops[job_handles[1]].gen = 2
  /\ Cardinality({l \in LoopIds : loops[l].gen = 1 /\ loops[l].aborted /\ ~loops[l].cell}) = 2

\* C27: reload_tasks never waits: while it runs its next step can always be
\* taken, whatever the job loops and the child processes are doing (a loop in
\* the middle of a poll, a loop that has just cleared its own cell, a command
\* that never ends); and, running on, it always returns.
C27_ReloadTerminates ==
  /\ [](rpc # "idle" => ENABLED reload_step)
  /\ (rpc # "idle") ~> (rpc = "idle")

\* C27's case: the second reload_tasks call has returned while the child of a
\* loop of the first call, whose task has no timeout, is still running.
C27_Witness ==
  /\ rpc = "idle" /\ gen = 2
  /\ \E p \in procs :
       /\ Running(p) /\ loops[p.loop].gen = 1 /\ loops[p.loop].busy
       /\ Tasks[p.task].timeout = NoTimeout

\* register_task has returned for loop l: it has stored the join handle.
Registered(l) == ~(rpc = "store" /\ l = Len(loops))

\* C28 as stated: once a job loop has ended by itself and its register_task
\* has returned, its handle cell holds no join handle, whichever of the loop's
\* self-clearing and register_task's store came first.
C28_Original ==
  \A l \in LoopIds :
    (loops[l].pc = "Ended" /\ ~loops[l].aborted /\ Registered(l)) => ~loops[l].cell

\* The handles that the scheduler holds or is going through.
Held == {job_handles[i] : i \in 1..Len(job_handles)} \cup {draining[i] : i \in 1..Len(draining)}

\* The step is reload_tasks dealing with the handle of loop h.
Cancels(h) ==
  rpc = "cancel" /\ draining # <<>> /\ Head(draining) = h /\ draining' = Tail(draining)

\* C29: a handle is cancelled at most once: a handle that the scheduler holds
\* is held once and its loop has never been aborted, and the step that deals
\* with a handle leaves its cell empty and the handle out of the scheduler's
\* hands, aborts the loop only when the cell held a join handle, touches no
\* other loop, and reload_tasks goes on. On a loop that has ended by itself
\* the step is safe: the loop stays as it ended and no child process changes.
C29_CancelOnceAndSafely ==
  /\ [](/\ \A l \in Held : l \in LoopIds /\ ~loops[l].aborted
        /\ Cardinality(Held) = Len(job_handles) + Len(draining))
  /\ [][\A h \in LoopIds :
          Cancels(h) =>
            /\ ~loops[h].aborted
            /\ ~loops'[h].cell
            /\ loops'[h].aborted = loops[h].cell
            /\ h \notin Held'
            /\ rpc' = "cancel"
            /\ \A m \in LoopIds \ {h} : loops'[m] = loops[m]
            /\ loops[h].pc = "Ended" =>
                 /\ loops'[h] = [loops[h] EXCEPT !.cell = FALSE, !.aborted = loops[h].cell]
                 /\ procs' = procs]_vars

\* C29's case: the second reload_tasks call has returned; of the two loops of
\* the first call one had ended by itself and cleared its cell (the reload
\* found the cell empty and aborted nothing), the other was aborted; the loop
\* of the second call is active.
C29_Witness ==
  /\ rpc = "idle" /\ gen = 2
  /\ \E a, b, c \in LoopIds :
       /\ loops[a].gen = 1 /\ loops[a].pc = "Ended" /\ ~loops[a].aborted /\ ~loops[a].cell
       /\ loops[b].gen = 1 /\ loops[b].aborted
       /\ loops[c].gen = 2 /\ Active(loops[c]) /\ ~loops[c].aborted /\ loops[c].cell

\* The step changes the handle collection or the content of a handle cell.
HandlesChange ==
  \/ job_handles' # job_handles
  \/ \E l \in LoopIds : loops'[l].cell # loops[l].cell

\* The step is one of reload_tasks (its entry, a step inside it, its return).
InReload == <<rpc, draining, pending, gen>>' # <<rpc, draining, pending, gen>>

\* C30 as stated: only reload_tasks changes the handle collection or the
\* content of a handle: no step of a job loop, of the Executor or of the
\* Alerter does.
C30_Original ==
  [][HandlesChange => InReload]_vars

\* C30, amended: the handle collection is changed by reload_tasks only, and so
\* is the content of a handle cell, with one exception: the task of a job loop
\* that ends by itself empties its own cell in the step in which it ends. No
\* step of a loop changes the cell of another loop, and no step of a loop that
\* goes on (waiting, running a command, killing, alerting) changes any cell.
C30_LoopClearsOnlyItsOwnCell ==
  [][(HandlesChange /\ ~InReload) =>
       /\ job_handles' = job_handles
       /\ \E l \in LoopIds :
            /\ loops[l].cell /\ ~loops'[l].cell
            /\ loops[l].pc # "Ended" /\ loops'[l].pc = "Ended"
            /\ \A m \in LoopIds \ {l} : loops'[m] = loops[m]]_vars

\* C30's case: a loop that executed its command and then ended by itself has
\* emptied its cell; its handle is still in job_handles and no reload_tasks
\* call has touched it.
C30_Witness ==
  /\ rpc = "idle"
  /\ \E i \in 1..Len(job_handles) :
       LET lp == loops[job_handles[i]]
       IN lp.pc = "Ended" /\ lp.execs = 1 /\ ~lp.cell /\ ~lp.aborted /\ lp.gen = gen

\* C31: an Executor invocation runs kill -9 at most once, and only on the
\* timeout path. When the kill's status is in, whether it succeeded or failed,
\* the Executor does not kill again: it returns TimedOut, having touched no
\* process in that step. An invocation that returned TimedOut killed exactly
\* once, holds no output of the process and sent no alert; one that returned
\* a Completed outcome (success or failure status) never killed.
C31_KillOnceThenTimedOut ==
  /\ [](\A l \in LoopIds :
          LET lp == loops[l]
          IN /\ lp.kills \in {0, 1}
             /\ lp.kills = 1 <=> lp.kill \in {"ok", "failed"}
             /\ lp.pc = "Killing" => lp.kills = 1
             /\ (~lp.busy /\ lp.outcome = "TimedOut") =>
                  lp.kills = 1 /\ ~lp.captured /\ lp.alerts = 0
             /\ (~lp.busy /\ lp.outcome \in {"Success", "Failed", "SpawnFailed"}) =>
                  lp.kills = 0)
  /\ [][\A l \in LoopIds :
          /\ loops[l].pc = "Killing" =>
               /\ loops'[l].kills = loops[l].kills
               /\ loops'[l].kill = loops[l].kill
               /\ loops'[l].pc \in {"Killing", "Cancelled", "Waiting", "Ended"}
          /\ (loops[l].pc = "Killing" /\ loops'[l].pc \notin {"Killing", "Cancelled"}) =>
               /\ loops'[l].outcome = "TimedOut"
               /\ ~loops'[l].busy
               /\ procs' = procs]_vars

\* C31's case: two invocations have returned TimedOut, each after one kill;
\* one kill succeeded, the other failed and its process is still running.
C31_Witness ==
  \E a, b \in LoopIds :
    /\ ~loops[a].busy /\ loops[a].outcome = "TimedOut"
    /\ loops[a].kill = "ok" /\ loops[a].kills = 1 /\ RunningChildrenOf(a) = {}
    /\ ~loops[b].busy /\ loops[b].outcome = "TimedOut"
    /\ loops[b].kill = "failed" /\ loops[b].kills = 1 /\ RunningChildrenOf(b) # {}

\* The step is one of job loop m, or of the child it awaits.
StepOf(m) ==
  \/ loops'[m] # loops[m] /\ ~InReload
  \/ \E p \in procs : p.loop = m /\ p \notin procs'

\* C32: job loops are independent. A step of one loop, or of its child,
\* changes nothing of a sibling loop, and whether a loop is due depends on
\* the clock and on its own child only: a loop that waits is due from its
\* fire instant on, whatever its siblings are doing. Under fair scheduling
\* every loop that waits for an occurrence (within the clock's range)
\* executes it, unless a reload aborts it first, also when the command of a
\* sibling never exits.
C32_LoopsIndependent ==
  /\ [][\A m \in LoopIds : StepOf(m) => \A l \in LoopIds \ {m} : loops'[l] = loops[l]]_vars
  /\ [](\A l \in LoopIds :
          (loops[l].pc = "Waiting" /\ ~loops[l].polling /\ now >= loops[l].next)
            => ENABLED poll(l))
  /\ \A l \in 1..MaxLoops : \A n \in 1..MaxTime :
       (l \in LoopIds /\ loops[l].pc = "Waiting" /\ ~loops[l].aborted /\ loops[l].next = n)
         ~> (l \in LoopIds /\ (n \in loops[l].fired \/ loops[l].aborted))

\* C32's case: the command of a task without timeout has been running since
\* tick 1, and its sibling of the same configuration has meanwhile executed
\* the occurrences of tick 1 and tick 2.
C32_Witness ==
  \E a, b \in LoopIds :
    /\ a # b /\ loops[a].gen = loops[b].gen
    /\ timeout_of(loops[a]) = NoTimeout /\ AwaitsRunningChild(a) /\ loops[a].proc = 1
    /\ now = 2 /\ ~loops[a].aborted /\ ~loops[b].aborted
    /\ loops[b].fired = {1, 2}

\* C33: a job loop never invokes the Executor before the fire instant it
\* computed: the sleep it sets up ends no earlier than that instant, the loop
\* is not due before it, and the Executor is invoked, for that instant, only
\* at or after it. The duration of the sleep is the time from the clock read
\* to the instant, and zero, not an error, when the instant is before the
\* clock read (a negative delay).
C33_NeverBeforeFireInstant ==
  /\ [](\A l \in LoopIds :
          loops[l].pc = "Waiting" =>
            /\ loops[l].wake >= loops[l].next
            /\ (~loops[l].polling /\ now < loops[l].next) => ~ENABLED poll(l))
  /\ [][\A l \in LoopIds :
          loops'[l].execs > loops[l].execs =>
            /\ loops[l].pc = "Waiting"
            /\ now >= loops[l].next
            /\ loops'[l].fire = loops[l].next]_vars
  /\ [](\A t \in 0..(MaxTime + 1) : \A n \in 0..(MaxTime + 1) :
          /\ sleep_duration(t, n) # OutOfRange
          /\ sleep_duration(t, n) = IF n < t THEN 0 ELSE n - t)

\* C33's case: a loop whose schedule has its only occurrence at tick 2 asked
\* at the start, slept, and has invoked the Executor for tick 2 at tick 2; a
\* sibling is in its sleep, its instant not yet reached.
C33_Witness ==
  \E a, b \in LoopIds :
    /\ loops[a].gen = 1 /\ schedule_of(loops[a]) = OneShot
    /\ loops[a].execs = 1 /\ loops[a].fire = 2 /\ now = 2
    /\ loops[b].pc = "Waiting" /\ ~loops[b].polling /\ ~loops[b].aborted
    /\ loops[b].wake > now

====
